---- MODULE Spec2Model ----
(***************************************************************************)
(* Model of the MNN React Native LLM session core:                         *)
(*   - Utf8StreamProcessor (utf8_stream_processor.cpp), a streaming UTF-8  *)
(*     reassembly decoder, and                                             *)
(*   - LlmSession (llm_session.cpp), the conversation session that drives  *)
(*     the inference collaborator through a decoder-backed sink.           *)
(* Strings are sequences of bytes (0..255).                                *)
(***************************************************************************)
EXTENDS Integers, Sequences, FiniteSets, TLC

VARIABLES
    \* --- a stand-alone Utf8StreamProcessor and the test bench around it ---
    buffer_,      \* Utf8StreamProcessor::buffer_
    emitted,      \* the strings its callback_ received, in order
    d_src,        \* the valid string under test, as a sequence of characters
    d_inj,        \* <<>> or <<at, byte>>: byte injected before character at+1
    d_rest,       \* the bytes not fed yet
    d_last,       \* the last processStream call: buffer before, data, output
    \* --- LlmSession fields ---
    llm_,                 \* TRUE iff llm_ != nullptr (the collaborator exists)
    config_,              \* json object: key -> value
    extra_config_,
    current_config_,      \* json object; NullJson until assigned
    max_new_tokens_,
    keep_history_,
    is_r1_,
    system_prompt_,
    history_,             \* sequence of PromptItem [first |-> role, second |-> text]
    stop_requested_,
    generate_text_end_,
    enable_audio_output_,
    \* --- the collaborator, as far as the session can tell ---
    llm_config,           \* the configuration last given to set_config
    \* --- one Response / ResponseWithHistory call in progress ---
    pc,                   \* "idle", "response", "loop", "generate", "returned"
    call,                 \* "Response", "ResponseWithHistory" or "none"
    on_progress,          \* TRUE iff the caller's on_progress is non-null
    current_size,
    response_buffer,
    processor,            \* buffer_ of the call's local Utf8StreamProcessor
    obs,                  \* what an observer of the call has seen (see ObsNone)
    \* --- the configuration overlay and the collaborator's side of it ---
    wavform_callback,     \* TRUE iff the collaborator holds a waveform callback
    fault,                \* TRUE iff the process has dereferenced a null llm_
                          \* and died of it
    last_op,              \* the last updateConfig or SetAssistantPrompt call,
                          \* if no Load came after it (see NoOp)
    \* --- a test bench for the text functions ---
    t_text,               \* the text under test
    t_is_r1,              \* the dialect under test
    t_op,                 \* "none", "strip", "strip2" or "finalize"
    t_prev,               \* the result before the last application
    t_out                 \* the result of the last application

decoderVars == <<buffer_, emitted, d_src, d_inj, d_rest, d_last>>

sessionVars ==
    <<llm_, config_, extra_config_, current_config_, max_new_tokens_,
      keep_history_, is_r1_, system_prompt_, history_, stop_requested_,
      generate_text_end_, enable_audio_output_, llm_config>>

callVars == <<pc, call, on_progress, current_size, response_buffer, processor, obs>>

overlayVars == <<wavform_callback, fault, last_op>>

textVars == <<t_text, t_is_r1, t_op, t_prev, t_out>>

vars == <<decoderVars, sessionVars, callVars, overlayVars, textVars>>

\* ------------------------------------------------------------------------
\* Bounds of the model
\* ------------------------------------------------------------------------

\* Longest valid string (in characters) fed to the stand-alone decoder.
MaxChars == 3

\* Largest max_new_tokens the model sets.
MaxTokens == 2

\* Most turns the persisted history holds when a send is started.
MaxHistory == 2

\* Most writes the collaborator makes to the sink during one call.
MaxWrites == 2

\* Most bytes of an arbitrary byte stream fed to the decoder.
MaxBytes == 4

\* Most pieces (markers, blanks, letters) of a text given to the text functions.
MaxPieces == 6

\* ------------------------------------------------------------------------
\* Byte strings
\* ------------------------------------------------------------------------

\* std::string::npos
npos == -1

\* s.substr(pos, n) / the bytes s[pos .. pos+n-1], pos counted from 0
substr(s, pos, n) == SubSeq(s, pos + 1, pos + n)

\* s.erase(pos, n): s without the n bytes starting at pos (from 0)
erase(s, pos, n) == SubSeq(s, 1, pos) \o SubSeq(s, pos + n + 1, Len(s))

RECURSIVE Concat(_)
\* Concatenation of a sequence of strings.
Concat(ss) == IF ss = <<>> THEN <<>> ELSE Head(ss) \o Concat(Tail(ss))

\* s.find(pat, from): the first position (from 0) at or after from where pat
\* occurs in s, npos when there is none.
find(s, pat, from) ==
    LET hits == {p \in from..(Len(s) - Len(pat)) :
                    SubSeq(s, p + 1, p + Len(pat)) = pat}
    IN IF hits = {} THEN npos
       ELSE CHOOSE p \in hits : \A q \in hits : p <= q

\* std::isspace in the "C" locale: \t \n \v \f \r and space.
isspace(ch) == ch \in {9, 10, 11, 12, 13, 32}

\* ------------------------------------------------------------------------
\* mls_config.h
\* ------------------------------------------------------------------------

DEFAULT_MAX_NEW_TOKENS == 2048

\* "You are a helpful assistant."
DEFAULT_SYSTEM_PROMPT ==
    <<89, 111, 117, 32, 97, 114, 101, 32, 97, 32, 104, 101, 108, 112, 102,
      117, 108, 32, 97, 115, 115, 105, 115, 116, 97, 110, 116, 46>>

\* "<|User|>"
R1_USER_START == <<60, 124, 85, 115, 101, 114, 124, 62>>

\* "<|Assistant|>"
R1_ASSISTANT_START ==
    <<60, 124, 65, 115, 115, 105, 115, 116, 97, 110, 116, 124, 62>>

\* "<think>\n"
R1_THINK_START == <<60, 116, 104, 105, 110, 107, 62, 10>>

\* "</think>"
R1_THINK_END == <<60, 47, 116, 104, 105, 110, 107, 62>>

\* "<|begin_of_sentence|>"
R1_SENTENCE_START ==
    <<60, 124, 98, 101, 103, 105, 110, 95, 111, 102, 95, 115, 101, 110, 116,
      101, 110, 99, 101, 124, 62>>

\* "<|end_of_sentence|>"
R1_SENTENCE_END ==
    <<60, 124, 101, 110, 100, 95, 111, 102, 95, 115, 101, 110, 116, 101, 110,
      99, 101, 124, 62>>

\* "<eop>"
END_OF_PROMPT == <<60, 101, 111, 112, 62>>

\* ------------------------------------------------------------------------
\* Utf8StreamProcessor
\* ------------------------------------------------------------------------

\* (byte & 0x80) == 0x00 || (byte & 0xE0) == 0xC0 || (byte & 0xF0) == 0xE0
\* || (byte & 0xF8) == 0xF0
isValidUtf8Start(byte) ==
    \/ byte \div 128 = 0
    \/ byte \div 32 = 6
    \/ byte \div 16 = 14
    \/ byte \div 8 = 30

getUtf8CharLength(byte) ==
    IF byte \div 128 = 0 THEN 1
    ELSE IF byte \div 32 = 6 THEN 2
    ELSE IF byte \div 16 = 14 THEN 3
    ELSE IF byte \div 8 = 30 THEN 4
    ELSE -1

\* (byte & 0xC0) == 0x80
isUtf8Continuation(byte) == byte \div 64 = 2

\* The continuation-byte loop of processCompleteCharacters: validChar.
validChar(buf, pos, charLen) ==
    \A i \in 1..(charLen - 1) :
        /\ pos + i < Len(buf)
        /\ isUtf8Continuation(buf[pos + i + 1])

RECURSIVE scanFrom_nowait(_, _, _)
\* scanFrom without the "incomplete character, wait for more data" break: a
\* lead byte whose character is not whole yet fails validation and is skipped.
scanFrom_nowait(buf, pos, out) ==
    IF pos >= Len(buf) THEN [pos |-> pos, out |-> out]
    ELSE LET firstByte == buf[pos + 1] IN
        IF ~isValidUtf8Start(firstByte) THEN scanFrom_nowait(buf, pos + 1, out)
        ELSE LET charLen == getUtf8CharLength(firstByte) IN
            IF charLen = -1 THEN scanFrom_nowait(buf, pos + 1, out)
            ELSE IF validChar(buf, pos, charLen)
                 THEN scanFrom_nowait(buf, pos + charLen,
                                      Append(out, substr(buf, pos, charLen)))
                 ELSE scanFrom_nowait(buf, pos + 1, out)

RECURSIVE scanFrom_stall(_, _, _)
\* scanFrom that stops at an unrecognised start byte instead of skipping it.
scanFrom_stall(buf, pos, out) ==
    IF pos >= Len(buf) THEN [pos |-> pos, out |-> out]
    ELSE LET firstByte == buf[pos + 1] IN
        IF ~isValidUtf8Start(firstByte) THEN [pos |-> pos, out |-> out]
        ELSE LET charLen == getUtf8CharLength(firstByte) IN
            IF charLen = -1 THEN [pos |-> pos, out |-> out]
            ELSE IF pos + charLen > Len(buf) THEN [pos |-> pos, out |-> out]
            ELSE IF validChar(buf, pos, charLen)
                 THEN scanFrom_stall(buf, pos + charLen,
                                     Append(out, substr(buf, pos, charLen)))
                 ELSE scanFrom_stall(buf, pos + 1, out)

RECURSIVE scanFrom_novalidate(_, _, _)
\* scanFrom without the validation of the continuation bytes: the bytes
\* behind a lead byte are taken as its character whatever they are.
scanFrom_novalidate(buf, pos, out) ==
    IF pos >= Len(buf) THEN [pos |-> pos, out |-> out]
    ELSE LET firstByte == buf[pos + 1] IN
        IF ~isValidUtf8Start(firstByte)
        THEN scanFrom_novalidate(buf, pos + 1, out)
        ELSE LET charLen == getUtf8CharLength(firstByte) IN
            IF charLen = -1 THEN scanFrom_novalidate(buf, pos + 1, out)
            ELSE IF pos + charLen > Len(buf) THEN [pos |-> pos, out |-> out]
            ELSE scanFrom_novalidate(buf, pos + charLen,
                                     Append(out, substr(buf, pos, charLen)))

RECURSIVE scanFrom(_, _, _)
\* The while loop of processCompleteCharacters from scan position pos
\* (counted from 0), out being the characters handed to the callback so far.
scanFrom(buf, pos, out) ==
    IF pos >= Len(buf) THEN [pos |-> pos, out |-> out]
    ELSE LET firstByte == buf[pos + 1] IN
        IF ~isValidUtf8Start(firstByte) THEN scanFrom(buf, pos + 1, out)
        ELSE LET charLen == getUtf8CharLength(firstByte) IN
            IF charLen = -1 THEN scanFrom(buf, pos + 1, out)
            ELSE IF pos + charLen > Len(buf) THEN [pos |-> pos, out |-> out]
            ELSE IF validChar(buf, pos, charLen)
                 THEN scanFrom(buf, pos + charLen,
                               Append(out, substr(buf, pos, charLen)))
                 ELSE scanFrom(buf, pos + 1, out)

\* processCompleteCharacters that clears the whole buffer after the scan,
\* dropping the bytes of an incomplete character.
processCompleteCharacters_clear(buf) ==
    [chars |-> scanFrom(buf, 0, <<>>).out, buffer |-> <<>>]

\* processCompleteCharacters on buffer buf: the characters handed to the
\* callback, in order, and the buffer left after the erase.
processCompleteCharacters(buf) ==
    LET r == scanFrom(buf, 0, <<>>) IN
    [chars  |-> r.out,
     buffer |-> IF r.pos > 0 THEN erase(buf, 0, r.pos) ELSE buf]

\* processStream that scans the new data on its own when the buffer holds
\* bytes, and puts what the scan leaves behind them.
processStream_alone(buf, data) ==
    IF Len(data) = 0 THEN [chars |-> <<>>, buffer |-> buf]
    ELSE LET r == processCompleteCharacters(data)
         IN [chars |-> r.chars, buffer |-> buf \o r.buffer]

\* processStream(data, len) on a processor whose buffer is buf.
processStream(buf, data) ==
    IF Len(data) = 0 THEN [chars |-> <<>>, buffer |-> buf]
    ELSE processCompleteCharacters(buf \o data)

\* ------------------------------------------------------------------------
\* llm_session.cpp: text helpers
\* ------------------------------------------------------------------------

trimLeadingWhitespace(str) ==
    LET firsts == {i \in 1..Len(str) : ~isspace(str[i])}
    IN IF firsts = {} THEN <<>>
       ELSE SubSeq(str, CHOOSE i \in firsts : \A j \in firsts : i <= j, Len(str))

getUserString(user_content, for_history, is_r1) ==
    IF is_r1
    THEN R1_USER_START \o user_content \o R1_ASSISTANT_START
         \o (IF for_history THEN <<>> ELSE R1_THINK_START)
    ELSE user_content

GetSystemPromptString(system_prompt, is_r1) ==
    IF is_r1 THEN R1_SENTENCE_START \o system_prompt ELSE system_prompt

\* deleteThinkPart that erases up to the last end marker after the start.
deleteThinkPart_greedy(assistant_content) ==
    LET think_start == find(assistant_content, R1_THINK_START, 0) IN
    IF think_start = npos THEN assistant_content
    ELSE LET ends == {p \in think_start..(Len(assistant_content)
                                            - Len(R1_THINK_END)) :
                         substr(assistant_content, p, Len(R1_THINK_END))
                            = R1_THINK_END}
         IN IF ends = {} THEN assistant_content
            ELSE LET think_end == CHOOSE p \in ends : \A q \in ends : q <= p
                 IN erase(assistant_content, think_start,
                          think_end + Len(R1_THINK_END) - think_start)

\* deleteThinkPart that erases to the end of the text when the end marker is
\* missing.
deleteThinkPart_toend(assistant_content) ==
    LET think_start == find(assistant_content, R1_THINK_START, 0) IN
    IF think_start = npos THEN assistant_content
    ELSE LET think_end == find(assistant_content, R1_THINK_END, think_start) IN
         IF think_end = npos THEN SubSeq(assistant_content, 1, think_start)
         ELSE erase(assistant_content, think_start,
                    think_end + Len(R1_THINK_END) - think_start)

deleteThinkPart(assistant_content) ==
    LET think_start == find(assistant_content, R1_THINK_START, 0) IN
    IF think_start = npos THEN assistant_content
    ELSE LET think_end == find(assistant_content, R1_THINK_END, think_start) IN
         IF think_end = npos THEN assistant_content
         ELSE erase(assistant_content, think_start,
                    think_end + Len(R1_THINK_END) - think_start)

\* getR1AssistantString that erases up to the marker but not the marker.
getR1AssistantString_keepmarker(assistant_content) ==
    LET pos == find(assistant_content, R1_THINK_END, 0)
        rest == IF pos # npos
                THEN erase(assistant_content, 0, pos)
                ELSE assistant_content
    IN trimLeadingWhitespace(rest) \o R1_SENTENCE_END

getR1AssistantString(assistant_content) ==
    LET pos == find(assistant_content, R1_THINK_END, 0)
        rest == IF pos # npos
                THEN erase(assistant_content, 0, pos + Len(R1_THINK_END))
                ELSE assistant_content
    IN trimLeadingWhitespace(rest) \o R1_SENTENCE_END

\* The text Response stores as the Assistant turn for the accumulated
\* response_result: the dialect's finalization, then the strip and the trim
\* that both dialects share.
finalizeReply(response_result, is_r1) ==
    LET r1 == IF is_r1 THEN getR1AssistantString(response_result)
              ELSE response_result
    IN trimLeadingWhitespace(deleteThinkPart(r1))

\* ------------------------------------------------------------------------
\* json objects: functions from keys to values
\* ------------------------------------------------------------------------

\* A json value that was never assigned (null).
NullJson == <<>>

\* j[key] = value
put(j, key, value) ==
    [k \in (DOMAIN j) \cup {key} |-> IF k = key THEN value ELSE j[k]]

\* j.contains(key)
contains(j, key) == key \in DOMAIN j

\* The key names the configuration texts of the model use, as bytes.
KeyBytes ==
    [temperature |-> <<116, 101, 109, 112, 101, 114, 97, 116, 117, 114, 101>>,
     topK |-> <<116, 111, 112, 75>>]

\* The result of a parse that throws json::parse_error.
ParseError == [ok |-> FALSE, value |-> NullJson]

RECURSIVE digitsEnd(_, _)
\* The position (from 1) after the decimal digits of s that start at pos.
digitsEnd(s, pos) ==
    IF pos <= Len(s) /\ s[pos] \in 48..57 THEN digitsEnd(s, pos + 1) ELSE pos

RECURSIVE number(_, _, _)
\* The value of the decimal digits s[from .. to - 1].
number(s, from, to) ==
    IF to <= from THEN 0
    ELSE 10 * number(s, from, to - 1) + (s[to - 1] - 48)

RECURSIVE parseMembers(_, _, _)
\* The members of an object from position pos (from 1) of s, acc the members
\* read so far: "key":digits, separated by commas, up to the closing brace
\* that ends the text.
parseMembers(s, pos, acc) ==
    LET q == find(s, <<34>>, pos)       \* the closing quote, counted from 0
        key == SubSeq(s, pos + 1, q)
        names == {k \in DOMAIN KeyBytes : KeyBytes[k] = key}
        e == digitsEnd(s, q + 3)
    IN IF \/ pos > Len(s) \/ s[pos] # 34
          \/ q = npos \/ names = {}
          \/ q + 2 > Len(s) \/ s[q + 2] # 58
          \/ e = q + 3
       THEN ParseError
       ELSE LET acc2 == put(acc, CHOOSE k \in names : TRUE, number(s, q + 3, e))
            IN IF e < Len(s) /\ s[e] = 44
               THEN parseMembers(s, e + 1, acc2)
               ELSE IF e = Len(s) /\ s[e] = 125
               THEN [ok |-> TRUE, value |-> acc2]
               ELSE ParseError

\* json::parse(text) for the texts of ConfigJsons: an object of members
\* "key":digits with keys of KeyBytes and no white space, or a text that is
\* not JSON. ok is FALSE where json::parse throws.
parse(text) ==
    IF Len(text) < 2 \/ text[1] # 123 THEN ParseError
    ELSE IF text = <<123, 125>> THEN [ok |-> TRUE, value |-> NullJson]
    ELSE parseMembers(text, 2, NullJson)

\* for (auto& [key, value] : new_config.items()) j[key] = value
merge(j, new_config) ==
    [k \in (DOMAIN j) \cup (DOMAIN new_config) |->
        IF k \in DOMAIN new_config THEN new_config[k] ELSE j[k]]

\* ------------------------------------------------------------------------
\* Inputs of the model
\* ------------------------------------------------------------------------

\* "hi"
PromptHi == <<104, 105>>

\* "Be brief."
PromptBrief == <<66, 101, 32, 98, 114, 105, 101, 102, 46>>

\* User texts submitted to send.
Prompts == {PromptHi}

\* System prompts given to setSystemPrompt.
SystemPrompts == {DEFAULT_SYSTEM_PROMPT, PromptBrief}

\* Values given to SetMaxNewTokens: a negative one, 0, and up to MaxTokens.
TokenChoices == (0 - 1)..MaxTokens

\* The merged configuration the session is constructed with.
Configs == {[max_new_tokens |-> MaxTokens]}

\* The extra configuration the session is constructed with.
ExtraConfigs ==
    {[mmap_dir |-> ""],
     [mmap_dir |-> "", keep_history |-> FALSE],
     [mmap_dir |-> "", is_r1 |-> TRUE],
     [mmap_dir |-> "", keep_history |-> FALSE, is_r1 |-> TRUE]}

\* The chat history the session is constructed with (user, assistant, ...).
HistoryArgs == {<<>>}

\* What the collaborator writes to the sink in one write: "hi", or the stop
\* sentinel it was given as end_with.
Chunks == {PromptHi, END_OF_PROMPT}

\* The same and the two bytes of U+00E9, one per write.
RunChunks == Chunks \cup {<<195>>, <<169>>}

\* What on_progress returns for the n characters of one write: never stop,
\* always stop, stop for the first character only, stop for the last only.
Returns(n) ==
    {[i \in 1..n |-> FALSE], [i \in 1..n |-> TRUE],
     [i \in 1..n |-> i = 1], [i \in 1..n |-> i = n]}

\* Texts given to updateConfig that are JSON:
\* {"temperature":1}  {"topK":40}  {"temperature":2,"topK":40}  {}
WellFormedJsons ==
    {<<123, 34, 116, 101, 109, 112, 101, 114, 97, 116, 117, 114, 101, 34, 58,
       49, 125>>,
     <<123, 34, 116, 111, 112, 75, 34, 58, 52, 48, 125>>,
     <<123, 34, 116, 101, 109, 112, 101, 114, 97, 116, 117, 114, 101, 34, 58,
       50, 44, 34, 116, 111, 112, 75, 34, 58, 52, 48, 125>>,
     <<123, 125>>}

\* Texts given to updateConfig that are not JSON:
\* {"temperature":1   temperature   {"topK":}   and the empty text
MalformedJsons ==
    {<<123, 34, 116, 101, 109, 112, 101, 114, 97, 116, 117, 114, 101, 34, 58,
       49>>,
     <<116, 101, 109, 112, 101, 114, 97, 116, 117, 114, 101>>,
     <<123, 34, 116, 111, 112, 75, 34, 58, 125>>,
     <<>>}

ConfigJsons == WellFormedJsons \cup MalformedJsons

\* Templates given to SetAssistantPrompt: "%s"
AssistantPrompts == {<<37, 115>>}

\* Histories given to ResponseWithHistory.
FullHistories ==
    {<<>>,
     <<[first |-> "system", second |-> PromptBrief],
       [first |-> "user", second |-> PromptHi]>>}

\* ------------------------------------------------------------------------
\* LlmSession
\* ------------------------------------------------------------------------

PromptItem(role, text) == [first |-> role, second |-> text]

\* A value-initialised PromptItem, as vector::resize creates it.
EmptyPromptItem == PromptItem("", <<>>)

\* history_.resize(n)
resize(h, n) ==
    IF Len(h) >= n THEN SubSeq(h, 1, n)
    ELSE h \o [i \in 1..(n - Len(h)) |-> EmptyPromptItem]

\* The history loop of the constructor: entry i (from 0) of the history
\* argument as a PromptItem.
HistoryItem(history, i, is_r1) ==
    IF is_r1
    THEN IF i % 2 = 0
         THEN PromptItem("user", getUserString(history[i + 1], TRUE, is_r1))
         ELSE PromptItem("assistant", getR1AssistantString(history[i + 1]))
    ELSE PromptItem(IF i % 2 = 0 THEN "user" ELSE "assistant",
                    IF i % 2 = 0 THEN history[i + 1]
                    ELSE deleteThinkPart(history[i + 1]))

\* No waveform chunk delivered in this call. The record of one holds:
\*   seen     a chunk was delivered
\*   enable   enable_audio_output_ at that time
\*   stop     stop_requested_ at that time
\*   calls    calls of the registered callback made for the chunk
\*   cbret    what the registered callback returned, if called
\*   ret      what the session's wrapper returned to the collaborator
NoChunk ==
    [seen |-> FALSE, enable |-> FALSE, stop |-> FALSE, calls |-> 0,
     cbret |-> FALSE, ret |-> FALSE]

\* What an observer has seen of the call in progress (all reset when the call's
\* result has been consumed):
\*   result       "none", "null" (nullptr returned) or "context"
\*   hist0        history_ when the call was entered
\*   stop0        stop_requested_ when the call was entered (forgotten at
\*                the collaborator's first step)
\*   prompt       the text submitted to Response
\*   llm_history  the history handed to llm_->response
\*   nRespond, nGenerate, nWavform   calls made on the collaborator
\*   nWrites, stream   writes to the sink, and all their bytes
\*   eopGen       nGenerate when the stream first held END_OF_PROMPT, else -1
\*   first        what on_progress returned for the first character:
\*                "none" (not called yet), "stop" or "go"
\*   stopSeen     on_progress has returned true at least once
\*   endCalls     calls of on_progress with is_eop = true
\*   delivered    concatenation of the strings passed with is_eop = false
\*   wav          the last waveform chunk the collaborator delivered
ObsNone ==
    [result |-> "none", hist0 |-> <<>>, stop0 |-> FALSE,
     prompt |-> <<>>, llm_history |-> <<>>,
     nRespond |-> 0, nGenerate |-> 0, nWavform |-> 0,
     nWrites |-> 0, stream |-> <<>>, eopGen |-> 0 - 1,
     first |-> "none", stopSeen |-> FALSE, endCalls |-> 0, delivered |-> <<>>,
     wav |-> NoChunk]

\* LlmSession::LlmSession(model_path, config, extra_config, history)
Construct(config, extra_config, history) ==
    /\ config_ = config
    /\ extra_config_ = extra_config
    /\ max_new_tokens_ = IF contains(config, "max_new_tokens")
                         THEN config["max_new_tokens"]
                         ELSE DEFAULT_MAX_NEW_TOKENS
    /\ keep_history_ = (~contains(extra_config, "keep_history")
                        \/ extra_config["keep_history"])
    /\ is_r1_ = (contains(extra_config, "is_r1") /\ extra_config["is_r1"])
    /\ system_prompt_ = IF contains(config, "system_prompt")
                        THEN config["system_prompt"]
                        ELSE DEFAULT_SYSTEM_PROMPT
    /\ history_ =
         LET r1 == contains(extra_config, "is_r1") /\ extra_config["is_r1"]
             sp == IF contains(config, "system_prompt")
                   THEN config["system_prompt"]
                   ELSE DEFAULT_SYSTEM_PROMPT
         IN <<PromptItem("system", GetSystemPromptString(sp, r1))>>
            \o [i \in 1..Len(history) |-> HistoryItem(history, i - 1, r1)]
    /\ llm_ = FALSE
    /\ current_config_ = NullJson
    /\ llm_config = NullJson

\* No call in progress.
CallIdle ==
    /\ pc = "idle"
    /\ call = "none"
    /\ on_progress = FALSE
    /\ current_size = 0
    /\ response_buffer = <<>>
    /\ processor = <<>>
    /\ obs = ObsNone

\* The stand-alone decoder is not used by the session.
DecoderParked ==
    /\ buffer_ = <<>>
    /\ emitted = <<>>
    /\ d_src = <<>>
    /\ d_inj = <<>>
    /\ d_rest = <<>>
    /\ d_last = [pre |-> <<>>, data |-> <<>>, out |-> <<>>]

\* No operation on the overlay since construction or Load. A record of one
\* holds:
\*   op          "updateConfig" or "SetAssistantPrompt"
\*   arg         the text it was given
\*   loaded      llm_ != nullptr when it was called
\*   overlay0    current_config_ when it was called
\*   set_config  it called llm_->set_config
NoOp ==
    [op |-> "none", arg |-> <<>>, loaded |-> FALSE, overlay0 |-> NullJson,
     set_config |-> FALSE]

\* The collaborator holds no callback, nothing has failed.
OverlayIdle ==
    /\ wavform_callback = FALSE
    /\ fault = FALSE
    /\ last_op = NoOp

\* The test bench of the text functions is not used by the session.
TextParked ==
    /\ t_text = <<>>
    /\ t_is_r1 = FALSE
    /\ t_op = "none"
    /\ t_prev = <<>>
    /\ t_out = <<>>

\* A freshly constructed session. The constructor assigns neither the run
\* flags nor the audio flag; the class declaration (llm_session.h) is not
\* among the sources, and they are taken to start false. Response assigns
\* both run flags before it reads them.
Init ==
    /\ \E config \in Configs, extra_config \in ExtraConfigs,
          history \in HistoryArgs :
          Construct(config, extra_config, history)
    /\ stop_requested_ = FALSE
    /\ generate_text_end_ = FALSE
    /\ enable_audio_output_ = FALSE
    /\ CallIdle
    /\ DecoderParked
    /\ OverlayIdle
    /\ TextParked

\* LlmSession::Load()
Load ==
    /\ pc = "idle"
    /\ LET use_mmap == extra_config_["mmap_dir"] # ""
           c1 == put(config_, "use_mmap", use_mmap)
           c2 == IF use_mmap
                 THEN put(c1, "tmp_path", extra_config_["mmap_dir"]) ELSE c1
           c3 == IF is_r1_
                 THEN put(put(c2, "use_template", FALSE), "precision", "high")
                 ELSE c2
       IN /\ current_config_' = c3
          /\ llm_config' = c3
          /\ last_op' = NoOp
    /\ llm_' = TRUE
    /\ UNCHANGED <<config_, extra_config_, max_new_tokens_, keep_history_,
                   is_r1_, system_prompt_, history_, stop_requested_,
                   generate_text_end_, enable_audio_output_>>
    /\ UNCHANGED <<wavform_callback, fault>>
    /\ UNCHANGED <<callVars, decoderVars, textVars>>

\* LlmSession::Reset()
Reset ==
    /\ pc = "idle"
    /\ history_' = resize(history_, 1)
    /\ UNCHANGED <<llm_, config_, extra_config_, current_config_,
                   max_new_tokens_, keep_history_, is_r1_, system_prompt_,
                   stop_requested_, generate_text_end_, enable_audio_output_,
                   llm_config>>
    /\ UNCHANGED <<callVars, decoderVars, overlayVars, textVars>>

\* clearHistory that keeps one turn more than it is asked to.
clearHistory_keepone(numToKeep) ==
    /\ pc = "idle"
    /\ LET n == (IF numToKeep < 0 THEN 0 ELSE numToKeep) + 1
       IN history_' = IF Len(history_) > n THEN SubSeq(history_, 1, n)
                      ELSE history_
    /\ UNCHANGED <<llm_, config_, extra_config_, current_config_,
                   max_new_tokens_, keep_history_, is_r1_, system_prompt_,
                   stop_requested_, generate_text_end_, enable_audio_output_,
                   llm_config>>
    /\ UNCHANGED <<callVars, decoderVars, overlayVars, textVars>>

\* LlmSession::clearHistory(numToKeep); prompt_string_for_debug is not modelled.
clearHistory(numToKeep) ==
    /\ pc = "idle"
    /\ LET n == IF numToKeep < 0 THEN 0 ELSE numToKeep
       IN history_' = IF Len(history_) > n THEN SubSeq(history_, 1, n)
                      ELSE history_
    /\ UNCHANGED <<llm_, config_, extra_config_, current_config_,
                   max_new_tokens_, keep_history_, is_r1_, system_prompt_,
                   stop_requested_, generate_text_end_, enable_audio_output_,
                   llm_config>>
    /\ UNCHANGED <<callVars, decoderVars, overlayVars, textVars>>

\* LlmSession::setSystemPrompt(system_prompt)
setSystemPrompt(system_prompt) ==
    /\ pc = "idle"
    /\ system_prompt_' = system_prompt
    /\ history_' =
         IF Len(history_) > 1
         THEN [history_ EXCEPT ![1].second =
                   GetSystemPromptString(system_prompt, is_r1_)]
         ELSE Append(history_,
                     PromptItem("system",
                                GetSystemPromptString(system_prompt, is_r1_)))
    /\ UNCHANGED <<llm_, config_, extra_config_, current_config_,
                   max_new_tokens_, keep_history_, is_r1_,
                   stop_requested_, generate_text_end_, enable_audio_output_,
                   llm_config>>
    /\ UNCHANGED <<callVars, decoderVars, overlayVars, textVars>>

\* LlmSession::getSystemPrompt()
getSystemPrompt == system_prompt_

\* LlmSession::SetMaxNewTokens(i)
SetMaxNewTokens(i) ==
    /\ pc = "idle"
    /\ max_new_tokens_' = i
    /\ UNCHANGED <<llm_, config_, extra_config_, current_config_,
                   keep_history_, is_r1_, system_prompt_, history_,
                   stop_requested_, generate_text_end_, enable_audio_output_,
                   llm_config>>
    /\ UNCHANGED <<callVars, decoderVars, overlayVars, textVars>>

\* LlmSession::enableAudioOutput(enable)
enableAudioOutput(enable) ==
    /\ pc = "idle"
    /\ enable_audio_output_' = enable
    /\ UNCHANGED <<llm_, config_, extra_config_, current_config_,
                   max_new_tokens_, keep_history_, is_r1_, system_prompt_,
                   history_, stop_requested_, generate_text_end_, llm_config>>
    /\ UNCHANGED <<callVars, decoderVars, overlayVars, textVars>>

\* LlmSession::SetAssistantPrompt(assistant_prompt). The debug line after
\* the if calls llm_->dump_config() whether or not llm_ is null: on a null
\* llm_ the behaviour is undefined, and the process dies or goes on.
SetAssistantPrompt(assistant_prompt) ==
    /\ pc = "idle"
    /\ LET c == put(current_config_, "assistant_prompt_template",
                    assistant_prompt)
       IN /\ current_config_' = c
          /\ llm_config' = IF llm_ THEN c ELSE llm_config
          /\ last_op' = [op |-> "SetAssistantPrompt", arg |-> assistant_prompt,
                         loaded |-> llm_, overlay0 |-> current_config_,
                         set_config |-> llm_]
    /\ fault' \in IF llm_ THEN {FALSE} ELSE BOOLEAN
    /\ UNCHANGED <<llm_, config_, extra_config_, max_new_tokens_,
                   keep_history_, is_r1_, system_prompt_, history_,
                   stop_requested_, generate_text_end_, enable_audio_output_>>
    /\ UNCHANGED wavform_callback
    /\ UNCHANGED <<callVars, decoderVars, textVars>>

\* updateConfig that applies the overlay to the collaborator after the
\* try block, whether or not the text parsed.
updateConfig_apply(config_json) ==
    /\ pc = "idle"
    /\ LET new_config == parse(config_json)
           c == IF new_config.ok
                THEN merge(current_config_, new_config.value)
                ELSE current_config_
       IN /\ current_config_' = c
          /\ llm_config' = IF llm_ THEN c ELSE llm_config
          /\ last_op' = [op |-> "updateConfig", arg |-> config_json,
                         loaded |-> llm_, overlay0 |-> current_config_,
                         set_config |-> llm_]
    /\ UNCHANGED <<llm_, config_, extra_config_, max_new_tokens_,
                   keep_history_, is_r1_, system_prompt_, history_,
                   stop_requested_, generate_text_end_, enable_audio_output_>>
    /\ UNCHANGED <<wavform_callback, fault>>
    /\ UNCHANGED <<callVars, decoderVars, textVars>>

\* LlmSession::updateConfig(config_json)
updateConfig(config_json) ==
    /\ pc = "idle"
    /\ LET new_config == parse(config_json)
           c == merge(current_config_, new_config.value)
       IN IF new_config.ok
          THEN /\ current_config_' = c
               /\ llm_config' = IF llm_ THEN c ELSE llm_config
               /\ last_op' = [op |-> "updateConfig", arg |-> config_json,
                              loaded |-> llm_, overlay0 |-> current_config_,
                              set_config |-> llm_]
          ELSE \* json::parse threw; the catch logs the error
               /\ UNCHANGED <<current_config_, llm_config>>
               /\ last_op' = [op |-> "updateConfig", arg |-> config_json,
                              loaded |-> llm_, overlay0 |-> current_config_,
                              set_config |-> FALSE]
    /\ UNCHANGED <<llm_, config_, extra_config_, max_new_tokens_,
                   keep_history_, is_r1_, system_prompt_, history_,
                   stop_requested_, generate_text_end_, enable_audio_output_>>
    /\ UNCHANGED <<wavform_callback, fault>>
    /\ UNCHANGED <<callVars, decoderVars, textVars>>

\* LlmSession::SetWavformCallback(callback), callback TRUE iff it is non-null.
SetWavformCallback(callback) ==
    /\ pc = "idle"
    /\ wavform_callback' = IF llm_ /\ callback THEN TRUE ELSE wavform_callback
    /\ UNCHANGED <<fault, last_op>>
    /\ UNCHANGED <<sessionVars, callVars, decoderVars, textVars>>

\* ------------------------------------------------------------------------
\* LlmSession::Response and LlmSession::ResponseWithHistory
\* ------------------------------------------------------------------------

\* bool is_eop = utf8Char.find(END_OF_PROMPT) != std::string::npos
isEop(utf8Char) == find(utf8Char, END_OF_PROMPT, 0) # npos

\* The observer's record of one on_progress(utf8Char, is_eop) call returning ret.
CallbackSeen(o, utf8Char, is_eop, ret) ==
    [o EXCEPT !.first = IF @ = "none" THEN (IF ret THEN "stop" ELSE "go") ELSE @,
              !.stopSeen = @ \/ ret,
              !.endCalls = IF is_eop THEN @ + 1 ELSE @,
              !.delivered = IF is_eop THEN @ ELSE @ \o utf8Char]

\* The tail of both character handlers: if (on_progress) { ... }
notifyProgress(st, utf8Char, is_eop, ret) ==
    IF on_progress
    THEN [st EXCEPT !.generate_text_end_ = is_eop,
                    !.stop_requested_ = ret,
                    !.obs = CallbackSeen(@, utf8Char, is_eop, ret)]
    ELSE st

\* The is_r1_ edit of the last message: the first R1_THINK_START is erased.
eraseUserThink(h) ==
    LET last_message == h[Len(h)]
        user_think_pos == find(last_message.second, R1_THINK_START, 0)
    IN IF user_think_pos # npos
       THEN [h EXCEPT ![Len(h)].second =
                erase(last_message.second, user_think_pos, Len(R1_THINK_START))]
       ELSE h

\* The character handler of Response that keeps a character out of the
\* accumulator when on_progress answers it with stop.
ResponseOnChar_skip(st, utf8Char, ret) ==
    LET is_eop == isEop(utf8Char)
        s1 == IF ~is_eop
              THEN [st EXCEPT !.response_buffer =
                                 IF ret THEN @ ELSE @ \o utf8Char]
              ELSE st
    IN notifyProgress(s1, utf8Char, is_eop, ret)

\* The character handler of Response: the lambda given to its processor.
\* st holds the fields it reads and writes; ret is what on_progress returns.
ResponseOnChar(st, utf8Char, ret) ==
    LET is_eop == isEop(utf8Char)
        s1 == IF ~is_eop
              THEN [st EXCEPT !.response_buffer = @ \o utf8Char]
              ELSE LET r0 == st.response_buffer
                       h1 == IF is_r1_ THEN eraseUserThink(st.history_)
                             ELSE st.history_
                       r2 == finalizeReply(r0, is_r1_)
                   IN [st EXCEPT !.history_ =
                           Append(h1, PromptItem("assistant", r2))]
    IN notifyProgress(s1, utf8Char, is_eop, ret)

\* The character handler of ResponseWithHistory: history_ is not touched.
ResponseWithHistoryOnChar(st, utf8Char, ret) ==
    LET is_eop == isEop(utf8Char)
        s1 == IF ~is_eop
              THEN [st EXCEPT !.response_buffer = @ \o utf8Char]
              ELSE st
    IN notifyProgress(s1, utf8Char, is_eop, ret)

RECURSIVE deliver(_, _, _)
\* The processor's callback_ invoked for each character of chars in order,
\* rets[i] being what on_progress returns for the i-th of them.
deliver(st, chars, rets) ==
    IF chars = <<>> THEN st
    ELSE deliver(IF call = "Response"
                 THEN ResponseOnChar(st, Head(chars), Head(rets))
                 ELSE ResponseWithHistoryOnChar(st, Head(chars), Head(rets)),
                 Tail(chars), Tail(rets))

\* Response on a null llm_ that resets the history before the null test.
ResponseNotLoaded_reset(prompt, cb) ==
    /\ pc = "idle"
    /\ ~llm_
    /\ history_' = IF ~keep_history_ THEN resize(history_, 1) ELSE history_
    /\ pc' = "returned"
    /\ call' = "Response"
    /\ on_progress' = cb
    /\ obs' = [ObsNone EXCEPT !.result = "null", !.hist0 = history_,
                              !.stop0 = stop_requested_,
                              !.prompt = prompt]
    /\ UNCHANGED <<current_size, response_buffer, processor>>
    /\ UNCHANGED <<llm_, config_, extra_config_, current_config_,
                   max_new_tokens_, keep_history_, is_r1_, system_prompt_,
                   stop_requested_, generate_text_end_, enable_audio_output_,
                   llm_config>>
    /\ UNCHANGED <<decoderVars, overlayVars, textVars>>

\* Response(prompt, on_progress) when llm_ == nullptr: returns nullptr.
ResponseNotLoaded(prompt, cb) ==
    /\ pc = "idle"
    /\ ~llm_
    /\ pc' = "returned"
    /\ call' = "Response"
    /\ on_progress' = cb
    /\ obs' = [ObsNone EXCEPT !.result = "null", !.hist0 = history_,
                              !.stop0 = stop_requested_,
                              !.prompt = prompt]
    /\ UNCHANGED <<current_size, response_buffer, processor>>
    /\ UNCHANGED <<sessionVars, decoderVars, overlayVars, textVars>>

\* Response that appends the User turn to the history it found, without the
\* reset of the non-retention mode.
ResponseBegin_noreset(prompt, cb) ==
    /\ pc = "idle"
    /\ llm_
    /\ LET h1 == IF ~keep_history_ THEN resize(history_, 1) ELSE history_
           h2 == Append(history_, PromptItem("user",
                                    getUserString(prompt, FALSE, is_r1_)))
       IN /\ Len(h1) < MaxHistory
          /\ history_' = h2
          /\ obs' = [ObsNone EXCEPT !.hist0 = history_,
                              !.stop0 = stop_requested_,
                                    !.prompt = prompt,
                                    !.llm_history = h2, !.nRespond = 1]
    /\ current_size' = 0
    /\ stop_requested_' = FALSE
    /\ generate_text_end_' = FALSE
    /\ response_buffer' = <<>>
    /\ processor' = <<>>
    /\ pc' = "response"
    /\ call' = "Response"
    /\ on_progress' = cb
    /\ UNCHANGED <<llm_, config_, extra_config_, current_config_,
                   max_new_tokens_, keep_history_, is_r1_, system_prompt_,
                   enable_audio_output_, llm_config>>
    /\ UNCHANGED <<decoderVars, overlayVars, textVars>>

\* Response(prompt, on_progress) up to the call of llm_->response.
ResponseBegin(prompt, cb) ==
    /\ pc = "idle"
    /\ llm_
    /\ LET h1 == IF ~keep_history_ THEN resize(history_, 1) ELSE history_
           h2 == Append(h1, PromptItem("user",
                                       getUserString(prompt, FALSE, is_r1_)))
       IN /\ Len(h1) < MaxHistory
          /\ history_' = h2
          /\ obs' = [ObsNone EXCEPT !.hist0 = history_,
                              !.stop0 = stop_requested_,
                                    !.prompt = prompt,
                                    !.llm_history = h2, !.nRespond = 1]
    /\ current_size' = 0
    /\ stop_requested_' = FALSE
    /\ generate_text_end_' = FALSE
    /\ response_buffer' = <<>>
    /\ processor' = <<>>
    /\ pc' = "response"
    /\ call' = "Response"
    /\ on_progress' = cb
    /\ UNCHANGED <<llm_, config_, extra_config_, current_config_,
                   max_new_tokens_, keep_history_, is_r1_, system_prompt_,
                   enable_audio_output_, llm_config>>
    /\ UNCHANGED <<decoderVars, overlayVars, textVars>>

\* ResponseWithHistory(full_history, on_progress) when llm_ == nullptr.
ResponseWithHistoryNotLoaded(full_history, cb) ==
    /\ pc = "idle"
    /\ ~llm_
    /\ pc' = "returned"
    /\ call' = "ResponseWithHistory"
    /\ on_progress' = cb
    /\ obs' = [ObsNone EXCEPT !.result = "null", !.hist0 = history_,
                              !.stop0 = stop_requested_]
    /\ UNCHANGED <<current_size, response_buffer, processor>>
    /\ UNCHANGED <<sessionVars, decoderVars, overlayVars, textVars>>

\* ResponseWithHistory that leaves the flags of the previous run as they are.
ResponseWithHistoryBegin_noclear(full_history, cb) ==
    /\ pc = "idle"
    /\ llm_
    /\ obs' = [ObsNone EXCEPT !.hist0 = history_,
                              !.stop0 = stop_requested_,
                              !.llm_history = full_history, !.nRespond = 1]
    /\ current_size' = 0
    /\ response_buffer' = <<>>
    /\ processor' = <<>>
    /\ pc' = "response"
    /\ call' = "ResponseWithHistory"
    /\ on_progress' = cb
    /\ UNCHANGED <<sessionVars, decoderVars, overlayVars, textVars>>

\* ResponseWithHistory that saves the supplied history to the member.
ResponseWithHistoryBegin_persist(full_history, cb) ==
    /\ pc = "idle"
    /\ llm_
    /\ history_' = full_history
    /\ obs' = [ObsNone EXCEPT !.hist0 = history_,
                              !.stop0 = stop_requested_,
                              !.llm_history = full_history, !.nRespond = 1]
    /\ current_size' = 0
    /\ stop_requested_' = FALSE
    /\ generate_text_end_' = FALSE
    /\ response_buffer' = <<>>
    /\ processor' = <<>>
    /\ pc' = "response"
    /\ call' = "ResponseWithHistory"
    /\ on_progress' = cb
    /\ UNCHANGED <<llm_, config_, extra_config_, current_config_,
                   max_new_tokens_, keep_history_, is_r1_, system_prompt_,
                   enable_audio_output_, llm_config>>
    /\ UNCHANGED <<decoderVars, overlayVars, textVars>>

\* ResponseWithHistory(full_history, on_progress) up to llm_->response.
ResponseWithHistoryBegin(full_history, cb) ==
    /\ pc = "idle"
    /\ llm_
    /\ obs' = [ObsNone EXCEPT !.hist0 = history_,
                              !.stop0 = stop_requested_,
                              !.llm_history = full_history, !.nRespond = 1]
    /\ current_size' = 0
    /\ stop_requested_' = FALSE
    /\ generate_text_end_' = FALSE
    /\ response_buffer' = <<>>
    /\ processor' = <<>>
    /\ pc' = "response"
    /\ call' = "ResponseWithHistory"
    /\ on_progress' = cb
    /\ UNCHANGED <<llm_, config_, extra_config_, current_config_,
                   max_new_tokens_, keep_history_, is_r1_, system_prompt_,
                   history_, enable_audio_output_, llm_config>>
    /\ UNCHANGED <<decoderVars, overlayVars, textVars>>

\* The collaborator, inside response or generate, writes chunk to the ostream:
\* stream_buffer hands it to processor.processStream, which calls the
\* character handler for every complete character.
SinkWrite(chunk) ==
    /\ pc \in {"response", "generate"}
    /\ obs.nWrites < MaxWrites
    /\ LET r == processStream(processor, chunk)
       IN \E rets \in IF on_progress THEN Returns(Len(r.chars))
                       ELSE {[i \in 1..Len(r.chars) |-> FALSE]} :
            LET st0 == [history_ |-> history_,
                        response_buffer |-> response_buffer,
                        generate_text_end_ |-> generate_text_end_,
                        stop_requested_ |-> stop_requested_,
                        obs |-> [obs EXCEPT
                                   !.stop0 = FALSE,
                                   !.nWrites = @ + 1,
                                   !.stream = @ \o chunk,
                                   !.eopGen =
                                      IF @ = 0 - 1 /\ find(obs.stream \o chunk,
                                                           END_OF_PROMPT, 0) # npos
                                      THEN obs.nGenerate ELSE @]]
                st == deliver(st0, r.chars, rets)
            IN /\ history_' = st.history_
               /\ response_buffer' = st.response_buffer
               /\ generate_text_end_' = st.generate_text_end_
               /\ stop_requested_' = st.stop_requested_
               /\ obs' = st.obs
               /\ processor' = r.buffer
    /\ UNCHANGED <<pc, call, on_progress, current_size>>
    /\ UNCHANGED <<llm_, config_, extra_config_, current_config_,
                   max_new_tokens_, keep_history_, is_r1_, system_prompt_,
                   enable_audio_output_, llm_config>>
    /\ UNCHANGED <<decoderVars, overlayVars, textVars>>

\* llm_->response(...) returns; current_size++.
ResponseReturn ==
    /\ pc = "response"
    /\ current_size' = current_size + 1
    /\ pc' = "loop"
    /\ obs' = [obs EXCEPT !.stop0 = FALSE]
    /\ UNCHANGED <<call, on_progress, response_buffer, processor>>
    /\ UNCHANGED <<sessionVars, decoderVars, overlayVars, textVars>>

\* The loop condition with the budget test off by one.
loopCondition_le ==
    ~stop_requested_ /\ ~generate_text_end_ /\ current_size <= max_new_tokens_

\* The condition of the extension loop.
loopCondition ==
    ~stop_requested_ /\ ~generate_text_end_ /\ current_size < max_new_tokens_

\* The loop condition holds: llm_->generate(1) is called.
Generate ==
    /\ pc = "loop"
    /\ loopCondition
    /\ pc' = "generate"
    /\ obs' = [obs EXCEPT !.nGenerate = @ + 1]
    /\ UNCHANGED <<call, on_progress, current_size, response_buffer, processor>>
    /\ UNCHANGED <<sessionVars, decoderVars, overlayVars, textVars>>

\* llm_->generate(1) returns; current_size++.
GenerateReturn ==
    /\ pc = "generate"
    /\ current_size' = current_size + 1
    /\ pc' = "loop"
    /\ UNCHANGED <<call, on_progress, response_buffer, processor, obs>>
    /\ UNCHANGED <<sessionVars, decoderVars, overlayVars, textVars>>

\* The end of the call behind a loop that is left on stop or end of
\* generation only: with the budget used up the call never gets here.
ResponseEnd_nobudget ==
    /\ pc = "loop"
    /\ stop_requested_ \/ generate_text_end_
    /\ obs' = [obs EXCEPT
                 !.nWavform = IF ~stop_requested_ /\ enable_audio_output_
                              THEN @ + 1 ELSE @,
                 !.result = "context"]
    /\ pc' = "returned"
    /\ UNCHANGED <<call, on_progress, current_size, response_buffer, processor>>
    /\ UNCHANGED <<sessionVars, decoderVars, overlayVars, textVars>>

\* The end of the call that stores what was generated as an Assistant turn.
ResponseEnd_store ==
    /\ pc = "loop"
    /\ ~loopCondition
    /\ obs' = [obs EXCEPT
                 !.nWavform = IF ~stop_requested_ /\ enable_audio_output_
                              THEN @ + 1 ELSE @,
                 !.result = "context"]
    /\ pc' = "returned"
    /\ history_' = IF call = "Response" /\ response_buffer # <<>>
                   THEN Append(history_, PromptItem("assistant",
                                   finalizeReply(response_buffer, is_r1_)))
                   ELSE history_
    /\ UNCHANGED <<call, on_progress, current_size, response_buffer, processor>>
    /\ UNCHANGED <<llm_, config_, extra_config_, current_config_,
                   max_new_tokens_, keep_history_, is_r1_, system_prompt_,
                   stop_requested_, generate_text_end_, enable_audio_output_,
                   llm_config>>
    /\ UNCHANGED <<decoderVars, overlayVars, textVars>>

\* The loop condition fails: generateWavform() if asked for, getContext(),
\* and the context is returned.
ResponseEnd ==
    /\ pc = "loop"
    /\ ~loopCondition
    /\ obs' = [obs EXCEPT
                 !.nWavform = IF ~stop_requested_ /\ enable_audio_output_
                              THEN @ + 1 ELSE @,
                 !.result = "context"]
    /\ pc' = "returned"
    /\ UNCHANGED <<call, on_progress, current_size, response_buffer, processor>>
    /\ UNCHANGED <<sessionVars, decoderVars, overlayVars, textVars>>

\* The wrapper without the test of stop_requested_.
wavformWrapper_nostop(cbret) ==
    IF ~enable_audio_output_ THEN [calls |-> 0, cbret |-> FALSE, ret |-> FALSE]
    ELSE [calls |-> 1, cbret |-> cbret, ret |-> ~cbret]

\* The lambda SetWavformCallback gives to llm_->setWavformCallback, called
\* with one chunk; cbret is what the registered callback returns when it is
\* called. The registered callback is never null (the test at registration).
wavformWrapper(cbret) ==
    IF ~enable_audio_output_ \/ stop_requested_
    THEN [calls |-> 0, cbret |-> FALSE, ret |-> FALSE]
    ELSE [calls |-> 1, cbret |-> cbret, ret |-> ~cbret]

\* The collaborator delivers a waveform chunk to the wrapper: while it runs
\* response or generate(1), or generateWavform() at the end of the call.
WavformChunk(cbret) ==
    /\ llm_
    /\ wavform_callback
    /\ \/ pc \in {"response", "generate"}
       \/ pc = "loop" /\ ~loopCondition
             /\ ~stop_requested_ /\ enable_audio_output_
    /\ LET w == wavformWrapper(cbret)
       IN obs' = [obs EXCEPT !.wav =
                    [seen |-> TRUE, enable |-> enable_audio_output_,
                     stop |-> stop_requested_, calls |-> w.calls,
                     cbret |-> w.cbret, ret |-> w.ret]]
    /\ UNCHANGED <<pc, call, on_progress, current_size, response_buffer,
                   processor>>
    /\ UNCHANGED <<sessionVars, decoderVars, overlayVars, textVars>>

\* The caller (submitNative, submitFullHistoryNative) reads the result; the
\* call's locals are gone.
Finish ==
    /\ pc = "returned"
    /\ pc' = "idle"
    /\ call' = "none"
    /\ on_progress' = FALSE
    /\ current_size' = 0
    /\ response_buffer' = <<>>
    /\ processor' = <<>>
    /\ obs' = ObsNone
    /\ UNCHANGED <<sessionVars, decoderVars, overlayVars, textVars>>

\* The steps of a call in progress, the collaborator writing chunks of set
\* chunks.
CallStep(chunks) ==
    \/ \E c \in chunks : SinkWrite(c)
    \/ ResponseReturn
    \/ Generate
    \/ GenerateReturn
    \/ ResponseEnd
    \/ Finish

\* The session's life: every operation on its history, and sends with a
\* progress callback against a collaborator that writes "hi" or the sentinel.
\* max_new_tokens and the audio flag stay as constructed.
Next ==
    \/ Load
    \/ Reset
    \/ \E n \in (0 - 1)..MaxHistory : clearHistory(n)
    \/ \E s \in SystemPrompts : setSystemPrompt(s)
    \/ \E p \in Prompts : ResponseNotLoaded(p, TRUE)
    \/ \E p \in Prompts : ResponseBegin(p, TRUE)
    \/ \E h \in FullHistories : ResponseWithHistoryNotLoaded(h, TRUE)
    \/ \E h \in FullHistories : ResponseWithHistoryBegin(h, TRUE)
    \/ CallStep(Chunks)

Spec == Init /\ [][Next]_vars

\* The generation run: sends with and without a progress callback, every token
\* budget, audio output on and off, and a collaborator that also splits a
\* character over two writes. The history is only appended to and reset.
NextRun ==
    \/ Load
    \/ Reset
    \/ \E i \in TokenChoices : SetMaxNewTokens(i)
    \/ \E b \in BOOLEAN : enableAudioOutput(b)
    \/ \E p \in Prompts, cb \in BOOLEAN : ResponseNotLoaded(p, cb)
    \/ \E p \in Prompts, cb \in BOOLEAN : ResponseBegin(p, cb)
    \/ \E cb \in BOOLEAN : ResponseWithHistoryNotLoaded(<<>>, cb)
    \/ \E cb \in BOOLEAN : ResponseWithHistoryBegin(<<>>, cb)
    \/ CallStep(RunChunks)

SpecRun == Init /\ [][NextRun]_vars

\* The generation run with every collaborator call returning: a call of
\* response or generate(1) that has been entered returns, and the thread then
\* takes the next step of the loop.
RunFairness ==
    /\ WF_vars(ResponseReturn)
    /\ WF_vars(Generate)
    /\ WF_vars(GenerateReturn)
    /\ WF_vars(ResponseEnd)

SpecRunFair == Init /\ [][NextRun]_vars /\ RunFairness

\* Audio output: the waveform callback registered on a loaded session, audio
\* output switched on and off, and waveform chunks delivered during sends
\* whose progress callback may ask to stop.
NextAudio ==
    \/ Load
    \/ \E b \in BOOLEAN : enableAudioOutput(b)
    \/ \E c \in BOOLEAN : SetWavformCallback(c)
    \/ \E p \in Prompts, cb \in BOOLEAN : ResponseBegin(p, cb)
    \/ CallStep(Chunks)
    \/ \E r \in BOOLEAN : WavformChunk(r)

SpecAudio == Init /\ [][NextAudio]_vars

\* The session around its load: every configuration operation and every send
\* on a session that is not loaded, and the configuration operations after
\* Load. A process that has died takes no further step.
NextSetup ==
    /\ ~fault
    /\ \/ Load
       \/ \E j \in ConfigJsons : updateConfig(j)
       \/ \E a \in AssistantPrompts : SetAssistantPrompt(a)
       \/ \E c \in BOOLEAN : SetWavformCallback(c)
       \/ \E i \in TokenChoices : SetMaxNewTokens(i)
       \/ \E s \in SystemPrompts : setSystemPrompt(s)
       \/ \E b \in BOOLEAN : enableAudioOutput(b)
       \/ \E p \in Prompts, cb \in BOOLEAN : ResponseNotLoaded(p, cb)
       \/ \E h \in FullHistories, cb \in BOOLEAN :
             ResponseWithHistoryNotLoaded(h, cb)
       \/ Finish

SpecSetup == Init /\ [][NextSetup]_vars

\* ------------------------------------------------------------------------
\* The stand-alone decoder fed a chunked byte stream
\* ------------------------------------------------------------------------

\* Valid UTF-8 characters of every length: A, U+00E9, U+20AC, U+1F600.
SampleChars ==
    {<<65>>, <<195, 169>>, <<226, 130, 172>>, <<240, 159, 152, 128>>}

\* Bytes that are no recognised start byte: continuation bytes and 0xF8..0xFF.
InvalidStartBytes == {128, 191, 248, 255}

ValidStrings == UNION {[1..n -> SampleChars] : n \in 0..MaxChars}

\* The bytes of string src with the injection inj applied.
InputBytes(src, inj) ==
    IF inj = <<>> THEN Concat(src)
    ELSE Concat(SubSeq(src, 1, inj[1])) \o <<inj[2]>>
         \o Concat(SubSeq(src, inj[1] + 1, Len(src)))

NoCall == [pre |-> <<>>, data |-> <<>>, out |-> <<>>]

DecoderInit ==
    /\ d_src \in ValidStrings
    /\ d_inj \in {<<>>} \cup
                 {<<at, b>> : at \in 0..Len(d_src), b \in InvalidStartBytes}
    /\ d_rest = InputBytes(d_src, d_inj)
    /\ buffer_ = <<>>
    /\ emitted = <<>>
    /\ d_last = NoCall
    /\ Construct([max_new_tokens |-> MaxTokens], [mmap_dir |-> ""], <<>>)
    /\ stop_requested_ = FALSE
    /\ generate_text_end_ = FALSE
    /\ enable_audio_output_ = FALSE
    /\ CallIdle
    /\ OverlayIdle
    /\ TextParked

\* processStream(data, k) with the next k bytes of the stream, k >= 1.
Feed(k) ==
    /\ k \in 1..Len(d_rest)
    /\ LET data == SubSeq(d_rest, 1, k)
           r == processStream(buffer_, data)
       IN /\ buffer_' = r.buffer
          /\ emitted' = emitted \o r.chars
          /\ d_rest' = SubSeq(d_rest, k + 1, Len(d_rest))
          /\ d_last' = [pre |-> buffer_, data |-> data, out |-> r.chars]
    /\ UNCHANGED <<d_src, d_inj>>
    /\ UNCHANGED <<sessionVars, callVars, overlayVars, textVars>>

\* processStream(data, 0): the early return.
FeedNothing ==
    /\ d_last # NoCall
    /\ LET r == processStream(buffer_, <<>>)
       IN /\ buffer_' = r.buffer
          /\ emitted' = emitted \o r.chars
          /\ d_last' = [pre |-> buffer_, data |-> <<>>, out |-> r.chars]
    /\ UNCHANGED <<d_src, d_inj, d_rest>>
    /\ UNCHANGED <<sessionVars, callVars, overlayVars, textVars>>

DecoderNext ==
    \/ \E k \in 1..(4 * MaxChars + 1) : Feed(k)
    \/ FeedNothing

SpecDecoder == DecoderInit /\ [][DecoderNext]_vars

\* ------------------------------------------------------------------------
\* Properties of the decoder (checked under SpecDecoder)
\* ------------------------------------------------------------------------

\* The proper non-empty prefixes of the multi-byte sample characters.
ProperPrefixes ==
    UNION {{SubSeq(c, 1, k) : k \in 1..(Len(c) - 1)} : c \in SampleChars}

\* C1 - Decoder completeness: once every byte of a valid string has been
\* fed, in whatever non-empty chunks, the callback has received exactly the
\* characters of the string, one call per character in input order, and the
\* buffer is empty.
C1_DecoderCompleteness ==
    (d_inj = <<>> /\ d_rest = <<>>) =>
        (emitted = d_src /\ Concat(emitted) = Concat(d_src) /\ buffer_ = <<>>)

\* C1 witness: a string of several characters has been fed completely and
\* the last chunk completed a character that was being held.
C1_Witness ==
    /\ d_inj = <<>> /\ d_rest = <<>> /\ Len(d_src) >= 2
    /\ d_last.pre # <<>> /\ d_last.data # <<>>
    /\ emitted = d_src

\* C2 - Partial-chunk holding: feeding a proper non-empty prefix of a
\* multi-byte character to a decoder with an empty buffer calls the callback
\* zero times and retains the prefix; feeding the remaining bytes of that
\* character to a decoder holding the prefix calls the callback exactly once,
\* with the whole character, and leaves the buffer empty.
C2_PartialHolding ==
    /\ (d_last.pre = <<>> /\ d_last.data \in ProperPrefixes) =>
           (d_last.out = <<>> /\ buffer_ = d_last.data)
    /\ (d_last.pre \in ProperPrefixes /\ d_last.data # <<>>
            /\ d_last.pre \o d_last.data \in SampleChars) =>
           (d_last.out = <<d_last.pre \o d_last.data>> /\ buffer_ = <<>>)

\* C2 witness: the first 2 bytes of the 3-byte character were held and the
\* third byte has just been fed, which emitted that character.
C2_Witness ==
    /\ d_last.pre = <<226, 130>> /\ d_last.data = <<172>>
    /\ d_last.out = <<(<<226, 130, 172>>)>>
    /\ emitted = d_src

\* C3 - Decoder robustness: with one unrecognised start byte injected between
\* the characters of a valid string, once every byte has been fed (in whatever
\* chunks) the callback has received exactly the original characters in
\* order: only the injected byte was dropped, and nothing is left buffered.
C3_DecoderRobustness ==
    (d_inj # <<>> /\ d_rest = <<>>) => (emitted = d_src /\ buffer_ = <<>>)

\* C3 witness: 0xFF was injected between two characters, everything has been
\* fed in more than one chunk, and both characters came out.
C3_Witness ==
    /\ d_inj # <<>> /\ d_inj[2] = 255 /\ d_inj[1] = 1 /\ Len(d_src) >= 2
    /\ d_rest = <<>> /\ d_last.pre # <<>>
    /\ emitted = d_src

\* ------------------------------------------------------------------------
\* Properties of the generation run (checked under SpecRun)
\* ------------------------------------------------------------------------

\* The last bytes written to the sink in this call are the stop sentinel.
SentinelLast ==
    /\ Len(obs.stream) >= Len(END_OF_PROMPT)
    /\ SubSeq(obs.stream, Len(obs.stream) - Len(END_OF_PROMPT) + 1,
              Len(obs.stream)) = END_OF_PROMPT

Max0(n) == IF n > 0 THEN n ELSE 0

\* C4 - Sentinel detection, as claimed: in a call with a progress callback,
\* once the collaborator has written the sentinel (and nothing after it) the
\* generation-ended flag is true, on_progress has been called with
\* is_eop = true, and no generate(1) has been issued since the sentinel.
\* The code violates it: the handler sees one character at a time and never
\* finds the 5-byte sentinel in it.
C4_SentinelDetection ==
    (pc # "idle" /\ on_progress /\ SentinelLast) =>
        (/\ generate_text_end_
         /\ obs.endCalls >= 1
         /\ obs.nGenerate = obs.eopGen)

\* C5 - Cancellation scenario, as claimed: when the response pass has
\* returned and on_progress returned stop for the first character of the
\* call, the stop flag is set and the loop issues no generate(1).
\* The code violates it: a later character of the same pass for which
\* on_progress returns false clears the flag again.
C5_Cancellation ==
    (pc = "loop" /\ current_size = 1 /\ obs.first = "stop") =>
        (stop_requested_ /\ ~loopCondition /\ obs.nGenerate = 0)

\* C6 - Token budget: every call on a loaded session makes exactly one
\* response pass and at most max(0, max_new_tokens_ - 1) generate(1) calls.
C6_TokenBudget ==
    (pc # "idle" /\ obs.result # "null") =>
        (/\ obs.nRespond = 1
         /\ obs.nGenerate <= Max0(max_new_tokens_ - 1))

\* C6 witness: with max_new_tokens_ = 1 a call has returned after its one
\* response pass, without sentinel or stop and without any generate(1).
C6_Witness ==
    /\ pc = "returned" /\ obs.result = "context"
    /\ max_new_tokens_ = 1
    /\ ~stop_requested_ /\ ~generate_text_end_
    /\ obs.nWrites > 0
    /\ obs.nRespond = 1 /\ obs.nGenerate = 0

\* ------------------------------------------------------------------------
\* Properties of the history (checked under Spec)
\* ------------------------------------------------------------------------

\* C7 - External-history isolation: during and after ResponseWithHistory the
\* persisted history is the history the call found, turn for turn.
C7_ExternalHistoryIsolation ==
    (call = "ResponseWithHistory") => history_ = obs.hist0

\* C7 witness: ResponseWithHistory has returned from a run in which the
\* sentinel was written and on_progress asked to stop, the supplied history
\* differing from the persisted one, which holds a User turn.
C7_Witness ==
    /\ pc = "returned" /\ call = "ResponseWithHistory"
    /\ obs.result = "context"
    /\ obs.eopGen >= 0 /\ obs.stopSeen
    /\ Len(history_) = 2 /\ history_[2].first = "user"
    /\ obs.llm_history # history_
    /\ history_ = obs.hist0

\* C8 - Two turns per send, as claimed: when Response has returned in
\* history-preserving mode from a run whose stream ended with the sentinel,
\* the history is the one before the call plus a User turn and an Assistant
\* turn. The code violates it (the sentinel is never recognised, see C4).
C8_SendAppendsTwoTurns ==
    (pc = "returned" /\ call = "Response" /\ obs.result = "context"
        /\ keep_history_ /\ SentinelLast) =>
        (/\ Len(history_) = Len(obs.hist0) + 2
         /\ SubSeq(history_, 1, Len(obs.hist0)) = obs.hist0
         /\ history_[Len(history_) - 1].first = "user"
         /\ history_[Len(history_)].first = "assistant")

\* C9 - After reset, as claimed: every Reset step leaves exactly one turn,
\* whose role is System. The code violates it after clearHistory(0).
C9_ResetLeavesSystemTurn ==
    [][Reset => (Len(history_') = 1 /\ history_'[1].first = "system")]_vars

\* C10 - System turn at index 0, as claimed: a non-empty history starts with
\* a System turn. The code violates it after clearHistory(0).
C10_SystemTurnFirst ==
    history_ # <<>> => history_[1].first = "system"

\* The number of System turns in history h.
SystemTurns(h) == Cardinality({i \in 1..Len(h) : h[i].first = "system"})

\* C11 - setSystemPrompt, as claimed: a setSystemPrompt step on a history
\* whose turn at index 0 is a System turn replaces that turn's text by the
\* wrapped prompt and leaves the number of turns unchanged, also when the
\* history holds the System turn only; the history then holds one System
\* turn. The code violates it: with one turn it appends a second System turn.
C11_SetSystemPromptReplaces ==
    [][\A s \in SystemPrompts :
         (setSystemPrompt(s) /\ history_ # <<>> /\ history_[1].first = "system")
           => (/\ Len(history_') = Len(history_)
               /\ history_'[1] =
                     PromptItem("system", GetSystemPromptString(s, is_r1_))
               /\ SystemTurns(history_') <= 1)]_vars

\* ------------------------------------------------------------------------
\* Properties of the session around its load (checked under SpecSetup)
\* ------------------------------------------------------------------------

\* C12 - Not-loaded send: a step that starts a send on a session whose llm_ is
\* null returns at once with a null result, without a call on the collaborator
\* or of on_progress, and leaves the history and both run flags as they were.
C12_NotLoadedSend ==
    [][(pc = "idle" /\ ~llm_ /\ pc' # "idle") =>
         (/\ pc' = "returned"
          /\ obs'.result = "null"
          /\ obs'.nRespond = 0 /\ obs'.nGenerate = 0 /\ obs'.nWavform = 0
          /\ obs'.nWrites = 0
          /\ obs'.first = "none" /\ obs'.endCalls = 0 /\ obs'.delivered = <<>>
          /\ history_' = history_
          /\ stop_requested_' = stop_requested_
          /\ generate_text_end_' = generate_text_end_)]_vars

\* C12 witness: Response has returned null on a session without retention
\* whose history holds two turns.
C12_Witness ==
    /\ pc = "returned" /\ call = "Response" /\ obs.result = "null"
    /\ ~llm_ /\ ~keep_history_
    /\ Len(history_) = 2 /\ history_ = obs.hist0

\* The values of the overlay keys that only updateConfig sets.
OverlayKeys == DOMAIN KeyBytes

\* C13 - Not-loaded configuration operations, as claimed: while llm_ is null
\* no operation has reached the collaborator (no configuration given to it,
\* no waveform callback registered with it) and the process has not failed.
\* The code violates it: SetAssistantPrompt calls llm_->dump_config() on the
\* null llm_.
C13_NotLoadedConfigOps ==
    ~llm_ => (~fault /\ llm_config = NullJson /\ ~wavform_callback)

\* C14 - Malformed overlay update: after updateConfig with a text that is not
\* JSON the overlay is the one before the call, set_config was not called,
\* the collaborator's configuration is untouched and the process goes on.
C14_MalformedUpdateDropped ==
    (last_op.op = "updateConfig" /\ last_op.arg \in MalformedJsons) =>
        (/\ current_config_ = last_op.overlay0
         /\ ~last_op.set_config
         /\ ~fault)

\* C14 witness: a loaded session whose overlay holds a key set by an earlier
\* updateConfig has just dropped a malformed update.
C14_Witness ==
    /\ llm_
    /\ last_op.op = "updateConfig" /\ last_op.arg \in MalformedJsons
    /\ last_op.arg # <<>>
    /\ contains(current_config_, "temperature")
    /\ current_config_ = last_op.overlay0
    /\ llm_config = current_config_

\* C15 - Deferred overlay application, as claimed: every key that updateConfig
\* put into the overlay while llm_ was null is, after the step that loads the
\* collaborator, in the overlay and in the configuration the collaborator was
\* given, with the same value. The code violates it: Load assigns
\* current_config_ from config_.
C15_DeferredOverlayApplied ==
    [][\A k \in OverlayKeys :
         (~llm_ /\ llm_' /\ contains(current_config_, k)) =>
            (/\ contains(current_config_', k)
             /\ current_config_'[k] = current_config_[k]
             /\ contains(llm_config', k)
             /\ llm_config'[k] = current_config_[k])]_vars

\* ------------------------------------------------------------------------
\* The text functions applied to texts over the marker alphabet
\* ------------------------------------------------------------------------

\* The pieces texts are made of: both thinking markers, a blank and "H".
Pieces == {R1_THINK_START, R1_THINK_END, <<32>>, <<72>>}

\* Every text of at most MaxPieces pieces.
Texts ==
    UNION {{Concat(s) : s \in [1..k -> Pieces]} : k \in 0..MaxPieces}

\* A text and a dialect are chosen; the session stands by, unused.
TextInit ==
    /\ t_text \in Texts
    /\ t_is_r1 \in BOOLEAN
    /\ t_op = "none"
    /\ t_prev = <<>>
    /\ t_out = <<>>
    /\ Construct([max_new_tokens |-> MaxTokens], [mmap_dir |-> ""], <<>>)
    /\ stop_requested_ = FALSE
    /\ generate_text_end_ = FALSE
    /\ enable_audio_output_ = FALSE
    /\ CallIdle
    /\ OverlayIdle
    /\ DecoderParked

\* deleteThinkPart(t_text)
Strip ==
    /\ t_op = "none"
    /\ t_prev' = t_text
    /\ t_out' = deleteThinkPart(t_text)
    /\ t_op' = "strip"
    /\ UNCHANGED <<t_text, t_is_r1>>
    /\ UNCHANGED <<sessionVars, callVars, decoderVars, overlayVars>>

\* deleteThinkPart applied to its own result
StripAgain ==
    /\ t_op = "strip"
    /\ t_prev' = t_out
    /\ t_out' = deleteThinkPart(t_out)
    /\ t_op' = "strip2"
    /\ UNCHANGED <<t_text, t_is_r1>>
    /\ UNCHANGED <<sessionVars, callVars, decoderVars, overlayVars>>

\* The finalization of the accumulated reply t_text in dialect t_is_r1.
Finalize ==
    /\ t_op = "none"
    /\ t_prev' = t_text
    /\ t_out' = finalizeReply(t_text, t_is_r1)
    /\ t_op' = "finalize"
    /\ UNCHANGED <<t_text, t_is_r1>>
    /\ UNCHANGED <<sessionVars, callVars, decoderVars, overlayVars>>

TextNext == Strip \/ StripAgain \/ Finalize

SpecText == TextInit /\ [][TextNext]_vars

\* ------------------------------------------------------------------------
\* Properties of the text functions (checked under SpecText)
\* ------------------------------------------------------------------------

\* Marker m occupies the bytes i+1 .. i+Len(m) of text r.
At(r, m, i) ==
    i >= 0 /\ i + Len(m) <= Len(r) /\ SubSeq(r, i + 1, i + Len(m)) = m

\* Text r without its leading white space.
RECURSIVE DropLeadingSpace(_)
DropLeadingSpace(r) ==
    IF r # <<>> /\ Head(r) \in {9, 10, 11, 12, 13, 32}
    THEN DropLeadingSpace(Tail(r)) ELSE r

\* The part of r after the first thinking-end marker, r when there is none.
AfterFirstEnd(r) ==
    LET cuts == {i \in 0..Len(r) :
                    /\ At(r, R1_THINK_END, i)
                    /\ \A j \in 0..(i - 1) : ~At(r, R1_THINK_END, j)}
    IN IF cuts = {} THEN r
       ELSE LET i == CHOOSE i \in cuts : TRUE
            IN SubSeq(r, i + Len(R1_THINK_END) + 1, Len(r))

\* The first marker pair of r: <<i, j>>, the first start marker at i and the
\* first end marker after it at j.
FirstPairs(r) ==
    LET starts == {i \in 0..Len(r) :
                      /\ At(r, R1_THINK_START, i)
                      /\ \A k \in 0..(i - 1) : ~At(r, R1_THINK_START, k)}
        ends(i) == {j \in (i + 1)..Len(r) :
                      /\ At(r, R1_THINK_END, j)
                      /\ \A k \in (i + 1)..(j - 1) : ~At(r, R1_THINK_END, k)}
    IN UNION {{<<i, j>> : j \in ends(i)} : i \in starts}

\* r holds a start marker followed by an end marker.
HasPair(r) == FirstPairs(r) # {}

\* r without its first marker pair and what is between, r when it has none.
WithoutFirstPair(r) ==
    IF ~HasPair(r) THEN r
    ELSE LET ij == CHOOSE ij \in FirstPairs(r) : TRUE
         IN SubSeq(r, 1, ij[1]) \o SubSeq(r, ij[2] + Len(R1_THINK_END) + 1, Len(r))

C18_StripIdempotent ==
    t_op = "strip2" => t_out = t_prev

\* C18, amended: deleteThinkPart returns unchanged every text that holds no
\* start marker followed by an end marker; so applied to its own result it
\* is a no-op whenever that result holds no such pair.
C18_StripIdempotentAmended ==
    (t_op \in {"strip", "strip2"} /\ ~HasPair(t_prev)) => t_out = t_prev

\* C18 witness: a text with one pair was stripped, and stripping the result
\* again, which holds a start marker only, changed nothing.
C18_Witness ==
    /\ t_op = "strip2"
    /\ HasPair(t_text) /\ ~HasPair(t_prev)
    /\ t_prev # t_text
    /\ find(t_prev, R1_THINK_START, 0) # npos
    /\ t_out = t_prev

\* ------------------------------------------------------------------------
\* Properties of the retention mode
\* ------------------------------------------------------------------------

C21_AudioSynthesisGate ==
    (pc = "returned" /\ obs.result = "context") =>
        obs.nWavform = IF enable_audio_output_ /\ ~obs.stopSeen THEN 1 ELSE 0

\* C22 - Reasoning-dialect user turn clean-up, as claimed (checked under
\* Spec): when a reasoning-dialect Response has returned from a run whose
\* stream ended with the sentinel, the User turn stored for it is the
\* for-history form of the submitted text. The code violates it: the clean-up
\* sits in the branch that is never taken (see C4).
C22_R1UserTurnCleanUp ==
    (pc = "returned" /\ call = "Response" /\ obs.result = "context"
        /\ is_r1_ /\ SentinelLast) =>
        (/\ Len(history_) >= Len(obs.llm_history)
         /\ history_[Len(obs.llm_history)] =
               PromptItem("user", getUserString(obs.prompt, TRUE, TRUE)))

\* C24 - Stop flag is sticky, as claimed (checked under SpecRun): once
\* on_progress has returned stop in a run, stop_requested_ is set until the
\* call returns. The code violates it: the flag is assigned on every
\* character.
C24_StopFlagSticky ==
    (pc \in {"response", "loop", "generate", "returned"} /\ obs.stopSeen) =>
        stop_requested_

\* C25 - Sentinel ends generation without a callback, as claimed (checked
\* under SpecRun): in a call without progress callback, once the collaborator
\* has written the sentinel (and nothing after it) generate_text_end_ is set
\* and no generate(1) has been issued since. The code violates it: the flag
\* is assigned only inside if (on_progress), and the sentinel is never
\* recognised (see C4).
C25_SentinelWithoutCallback ==
    (pc \in {"response", "loop", "generate", "returned"} /\ ~on_progress
        /\ obs.result # "null" /\ SentinelLast) =>
        (generate_text_end_ /\ obs.nGenerate = obs.eopGen)

\* The text of the Assistant turns of history h.
AssistantTexts(h) == {h[i].second : i \in {j \in 1..Len(h) : h[j].first = "assistant"}}

\* C26 - Sentinel is never content, as claimed (checked under SpecRun): the
\* sentinel is neither in the response accumulator, nor in what on_progress
\* was given with is_eop = false, nor in an Assistant turn of the history.
\* The code violates it: its characters are handled as content (see C4).
C26_SentinelNeverContent ==
    /\ find(response_buffer, END_OF_PROMPT, 0) = npos
    /\ find(obs.delivered, END_OF_PROMPT, 0) = npos
    /\ \A text \in AssistantTexts(history_) :
          find(text, END_OF_PROMPT, 0) = npos

\* C23 - Termination (checked under SpecRunFair, whose fairness says that the
\* collaborator's calls return): a call that has entered llm_->response
\* eventually returns, whatever the callback returns and whatever is written
\* to the stream.
C23_Termination ==
    (pc \in {"response", "loop", "generate"}) ~> (pc = "returned")

\* A call without any stop has returned on the exhausted budget, after the
\* collaborator wrote to the stream twice.
C23_Witness ==
    /\ pc = "returned"
    /\ obs.result = "context"
    /\ ~obs.stopSeen
    /\ ~generate_text_end_
    /\ obs.nWrites = MaxWrites
    /\ current_size = max_new_tokens_
    /\ obs.nGenerate = MaxTokens - 1

\* C27 - Content forwarding order (checked under SpecRun): at every point of
\* a run with a progress callback the response accumulator is the
\* concatenation, in stream order, of what on_progress has been given with
\* is_eop = false.
C27_ContentForwardingOrder ==
    (pc \in {"response", "loop", "generate", "returned"} /\ on_progress
        /\ obs.result # "null") =>
        response_buffer = obs.delivered

\* The two bytes of U+00E9 arrived in two writes and were forwarded as one
\* character.
C27_Witness ==
    /\ pc \in {"response", "generate"}
    /\ on_progress
    /\ obs.nWrites = 2
    /\ obs.stream = <<195, 169>>
    /\ response_buffer = <<195, 169>>
    /\ obs.delivered = <<195, 169>>

C29_RunStatePerCall ==
    [][(pc = "idle" /\ pc' = "response") =>
          (/\ ~stop_requested_'
           /\ ~generate_text_end_'
           /\ response_buffer' = <<>>
           /\ processor' = <<>>
           /\ current_size' = 0)]_vars

\* A run has begun, with its flags clear, on a session whose previous run was
\* cancelled.
C29_Witness ==
    /\ pc = "response"
    /\ obs.nWrites = 0
    /\ obs.stop0
    /\ ~stop_requested_
    /\ ~generate_text_end_
    /\ response_buffer = <<>>
    /\ processor = <<>>

\* C30 - clearHistory (checked under Spec): clearHistory(n) leaves the first
\* max(n, 0) turns of the history, in their order, and no other; the history
\* is unchanged when it has no more turns than that.
C30_ClearHistoryKeepsPrefix ==
    [][\A n \in (0 - 1)..MaxHistory :
          clearHistory(n) =>
             LET k == IF Max0(n) < Len(history_) THEN Max0(n)
                      ELSE Len(history_)
             IN /\ Len(history_') = k
                /\ \A i \in 1..k : history_'[i] = history_[i]
                /\ (Max0(n) >= Len(history_) => history_' = history_)]_vars

\* clearHistory has emptied the history of a loaded session: no other
\* operation removes the first turn.
C30_Witness ==
    /\ pc = "idle"
    /\ llm_
    /\ history_ = <<>>

\* ------------------------------------------------------------------------
\* The stand-alone decoder fed arbitrary bytes
\* ------------------------------------------------------------------------

\* One byte of every kind the decoder tells apart: ASCII, a continuation
\* byte, the lead bytes of 2, 3 and 4 bytes, and 0xFF.
SampleBytes == {65, 128, 195, 226, 240, 255}

\* Every stream of up to MaxBytes sample bytes, well-formed or not.
ByteStreams == UNION {[1..n -> SampleBytes] : n \in 0..MaxBytes}

\* A fresh decoder and a stream of arbitrary bytes to feed it; d_src holds
\* the stream as one piece.
BytesInit ==
    /\ d_rest \in ByteStreams
    /\ d_src = <<d_rest>>
    /\ d_inj = <<>>
    /\ buffer_ = <<>>
    /\ emitted = <<>>
    /\ d_last = NoCall
    /\ Construct([max_new_tokens |-> MaxTokens], [mmap_dir |-> ""], <<>>)
    /\ stop_requested_ = FALSE
    /\ generate_text_end_ = FALSE
    /\ enable_audio_output_ = FALSE
    /\ CallIdle
    /\ OverlayIdle
    /\ TextParked

BytesNext ==
    \/ \E k \in 1..MaxBytes : Feed(k)
    \/ FeedNothing

SpecBytes == BytesInit /\ [][BytesNext]_vars

\* The bytes given to processStream so far.
Fed ==
    LET all == InputBytes(d_src, d_inj)
    IN SubSeq(all, 1, Len(all) - Len(d_rest))

\* buf is one partial character: a lead byte of a character of L >= 2 bytes,
\* followed by continuation bytes only, fewer than L bytes in all.
PartialCharacter(buf) ==
    /\ buf # <<>>
    /\ getUtf8CharLength(buf[1]) >= 2
    /\ Len(buf) < getUtf8CharLength(buf[1])
    /\ \A i \in 2..Len(buf) : isUtf8Continuation(buf[i])

\* C31 - Decoder retained bytes, as claimed (checked under SpecBytes): after
\* every processStream call the buffer is empty or is one partial character.
\* The code violates it: the "wait for more data" break comes before the
\* continuation bytes are looked at, so bytes that cannot continue the lead
\* byte are retained behind it.
C31_RetainedPartialCharacter ==
    buffer_ = <<>> \/ PartialCharacter(buffer_)

\* c is one whole character: as long as its first byte declares, every other
\* byte a continuation byte.
WholeCharacter(c) ==
    /\ c # <<>>
    /\ Len(c) \in 1..4
    /\ Len(c) = getUtf8CharLength(c[1])
    /\ \A i \in 2..Len(c) : isUtf8Continuation(c[i])

RECURSIVE SlicesOf(_, _, _)
\* The strings chars are found in s from offset from on, one behind the
\* other without overlap (each at its first place behind the one before).
SlicesOf(chars, s, from) ==
    IF chars = <<>> THEN TRUE
    ELSE LET at == find(s, Head(chars), from)
         IN /\ at # npos
            /\ SlicesOf(Tail(chars), s, at + Len(Head(chars)))

\* C32 - Decoder never emits a partial character (checked under SpecBytes):
\* for every byte stream and chunking, every string given to the callback is
\* one whole character, and the strings given are disjoint contiguous slices
\* of the bytes fed, in stream order.
C32_NoPartialCharacterEmitted ==
    /\ \A i \in 1..Len(emitted) : WholeCharacter(emitted[i])
    /\ SlicesOf(emitted, Fed, 0)

\* A malformed stream was fed in more than one call; a multi-byte character
\* of it was emitted and other bytes of it were dropped.
C32_Witness ==
    /\ d_rest = <<>>
    /\ d_last.pre # <<>>
    /\ \E i \in 1..Len(emitted) : Len(emitted[i]) >= 2
    /\ Len(Concat(emitted)) + Len(buffer_) < Len(Fed)

\* C33 - Decoder chunking independence (checked under SpecBytes): for every
\* byte stream, however the bytes fed so far were split into calls, the
\* characters emitted and the buffer retained are those of one processStream
\* call with all these bytes on a fresh decoder.
C33_ChunkingIndependence ==
    LET one == processStream(<<>>, Fed)
    IN /\ emitted = one.chars
       /\ buffer_ = one.buffer

\* A malformed stream was fed whole in several calls, the last of them
\* completing a character the buffer held the start of.
C33_Witness ==
    /\ d_rest = <<>>
    /\ Len(d_last.data) < Len(Fed)
    /\ d_last.pre # <<>>
    /\ d_last.out # <<>>
    /\ \E i \in 1..Len(Fed) : ~isValidUtf8Start(Fed[i]) /\ Fed[i] = 255

\* C34 - System prompt consistency, as claimed (checked under Spec): in every
\* state reached by setSystemPrompt, Reset, clearHistory and sends, the System
\* turn at index 0 carries the text getSystemPrompt() returns, in the
\* wrapping of the active dialect. The code violates it: setSystemPrompt on a
\* history of one turn appends a turn and leaves index 0 as it was (see C11).
C34_SystemPromptConsistency ==
    (history_ # <<>> /\ history_[1].first = "system") =>
        history_[1].second = GetSystemPromptString(getSystemPrompt, is_r1_)

\* C35 - Audio cancellation (checked under SpecAudio): for every waveform
\* chunk the collaborator delivers, if stop_requested_ is set or audio output
\* is disabled at that time the registered callback is not called and the
\* wrapper returns false; otherwise the registered callback is called once
\* and the wrapper returns the negation of its result.
C35_AudioCancellation ==
    obs.wav.seen =>
        IF obs.wav.stop \/ ~obs.wav.enable
        THEN obs.wav.calls = 0 /\ ~obs.wav.ret
        ELSE obs.wav.calls = 1 /\ obs.wav.ret = ~obs.wav.cbret

\* A chunk arrived while audio output was enabled and a stop was pending: the
\* registered callback was not called and the wrapper returned false.
C35_Witness ==
    /\ obs.wav.seen
    /\ obs.wav.enable
    /\ obs.wav.stop
    /\ obs.wav.calls = 0
    /\ ~obs.wav.ret
    /\ wavform_callback

====
